---- MODULE Spec2Model ----
(***************************************************************************)
(* Three tutorial notebooks, each executed by its own kernel.              *)
(*                                                                         *)
(*  - the eigendecomposition notebook (three code cells: eigendecompose,   *)
(*    confirm an eigenvector, reconstruct the matrix).  The kernel state   *)
(*    is the namespace of the names the cells bind.  Each cell is one      *)
(*    action: its statements are run in order against the namespace and   *)
(*    the first exception aborts the cell, keeping what was bound so far.  *)
(*    The matrix literal of a cell (and the column index of the confirm    *)
(*    cell) is the action's input.  Spec runs the cells with 2x2 matrices  *)
(*    of every kind of eigenstructure, SpecSource with the 3x3 matrix of   *)
(*    the source and with identity matrices.                               *)
(*  - the pseudorandom number notebook (two code cells), SpecRandom.       *)
(*  - the stacked LSTM notebook (cells that build a Keras model),          *)
(*    SpecKeras.                                                           *)
(*                                                                         *)
(* Arithmetic is exact: a number is a complex rational <<re, im, den>>.    *)
(* numpy computes in IEEE doubles; the inputs are restricted to matrices   *)
(* whose eigenpairs are exactly representable, and round-off is modelled   *)
(* only where it decides control flow (see obscured).                      *)
(***************************************************************************)
EXTENDS Integers, Sequences, FiniteSets, TLC

----------------------------------------------------------------------------
(* Exact complex rational numbers: <<re, im, den>>, den > 0, lowest terms. *)

Abs(x) == IF x < 0 THEN -x ELSE x

RECURSIVE GCD(_, _)
GCD(a, b) == IF b = 0 THEN Abs(a) ELSE GCD(b, a % b)

Num(re, im, den) ==
    LET s == IF den < 0 THEN -1 ELSE 1
        g == GCD(GCD(Abs(re), Abs(im)), Abs(den))
    IN  <<(s * re) \div g, (s * im) \div g, (s * den) \div g>>

Cx(n) == <<n, 0, 1>>
Zero == Cx(0)
One == Cx(1)

CAdd(x, y) == Num(x[1] * y[3] + y[1] * x[3], x[2] * y[3] + y[2] * x[3], x[3] * y[3])
CNeg(x) == <<-x[1], -x[2], x[3]>>
CSub(x, y) == CAdd(x, CNeg(y))
CMul(x, y) == Num(x[1] * y[1] - x[2] * y[2], x[1] * y[2] + x[2] * y[1], x[3] * y[3])
CConj(x) == <<x[1], -x[2], x[3]>>
\* |x|^2, a non-negative rational
CAbs2(x) == Num(x[1] * x[1] + x[2] * x[2], 0, x[3] * x[3])
\* x / y for y # 0:  x * conj(y) / |y|^2, with y = (y[1] + i y[2]) / y[3]
CDiv(x, y) ==
    LET n == <<x[1] * y[1] + x[2] * y[2], x[2] * y[1] - x[1] * y[2]>>
        m == y[1] * y[1] + y[2] * y[2]
    IN  Num(n[1] * y[3], n[2] * y[3], x[3] * m)
IsReal(x) == x[2] = 0

IsSquare(n) == n >= 0 /\ \E r \in 0..n : r * r = n
ISqrt(n) == CHOOSE r \in 0..n : r * r = n
\* the rationals with a rational square root, and that root
HasSqrt(q) == IsReal(q) /\ IsSquare(q[1] * q[3])
Sqrt(q) == Num(ISqrt(q[1] * q[3]), 0, q[3])

----------------------------------------------------------------------------
(* numpy arrays.  An array value is [kind, d]: d holds the entries (a      *)
(* sequence of numbers for a 1-D array, a sequence of rows for a 2-D one). *)
(* kind "exact": the stored doubles are the entries up to rounding that    *)
(* the tolerance absorbs.  kind "perturbed": an eigenvector matrix whose   *)
(* exact columns are linearly dependent but whose stored doubles are not   *)
(* (numpy.linalg.eig: "some of the columns may be linearly dependent,      *)
(* although round-off error may obscure that fact").  kind "illcond": the  *)
(* result of arithmetic with the inverse of such a matrix; its entries     *)
(* are finite or infinite doubles of no specified value.                   *)

NoError == "none"
NotSquareError == "LinAlgError: Last 2 dimensions of the array must be square"
SingularError == "LinAlgError: Singular matrix"

Unbound == [kind |-> "unbound", d |-> <<>>]
IllCond == [kind |-> "illcond", d |-> <<>>]
Exact(d) == [kind |-> "exact", d |-> d]

\* array([[...], ...]) of an integer literal
array(lit) == Exact([i \in 1..Len(lit) |-> [j \in 1..Len(lit[i]) |-> Cx(lit[i][j])]])

Rows(m) == Len(m)
Cols(m) == Len(m[1])
IsSquareShape(m) == Rows(m) = Cols(m)
Column(m, j) == [i \in 1..Rows(m) |-> m[i][j]]
Row(m, i) == m[i]

RECURSIVE SumSeq(_)
SumSeq(s) == IF s = <<>> THEN Zero ELSE CAdd(s[1], SumSeq(Tail(s)))

\* sum_k x[k] * y[k] (no conjugation, as numpy.dot)
Inner(x, y) == SumSeq([k \in 1..Len(x) |-> CMul(x[k], y[k])])

MatVec(m, v) == [i \in 1..Rows(m) |-> Inner(m[i], v)]
MatMul(m, n) == [i \in 1..Rows(m) |-> [j \in 1..Cols(n) |-> Inner(m[i], Column(n, j))]]
Scale(v, c) == [k \in 1..Len(v) |-> CMul(v[k], c)]

----------------------------------------------------------------------------
(* Real numbers a + b*sqrt(33), for the matrix of the source.  The          *)
(* characteristic polynomial of [[1,2,3],[4,5,6],[7,8,9]] is                *)
(* x^3 - 15 x^2 - 18 x: its roots are 0 and (15 +- 3 sqrt(33)) / 2.  A      *)
(* number is <<a, b, den>> = (a + b*sqrt(Radicand)) / den, den > 0, in      *)
(* lowest terms; an integer n is <<n, 0, 1>> as for the complex rationals,  *)
(* and sums, differences and negation are those of the complex rationals    *)
(* (CAdd, CSub, CNeg work on the two coefficients separately).              *)

Radicand == 33

SMul(x, y) ==
    Num(x[1] * y[1] + Radicand * x[2] * y[2], x[1] * y[2] + x[2] * y[1], x[3] * y[3])

\* x / y for y # 0:  x * conj(y) / N(y), conj(a + b r) = a - b r, N(y) = y conj(y)
SDiv(x, y) ==
    LET n == <<x[1] * y[1] - Radicand * x[2] * y[2], x[2] * y[1] - x[1] * y[2]>>
        m == y[1] * y[1] - Radicand * y[2] * y[2]
    IN  Num(n[1] * y[3], n[2] * y[3], x[3] * m)

\* a square root of a rational q >= 0 that has one among the numbers a + b*sqrt(33)
SHasSqrt(q) == HasSqrt(q) \/ HasSqrt(CDiv(q, Cx(Radicand)))
SSqrt(q) ==
    IF HasSqrt(q) THEN Sqrt(q)
    ELSE LET r == Sqrt(CDiv(q, Cx(Radicand))) IN <<0, r[1], r[3]>>

SInner(x, y) == SumSeq(<<>> \o [k \in 1..Len(x) |-> SMul(x[k], y[k])])
SMatVec(m, v) == <<>> \o [i \in 1..Rows(m) |-> SInner(m[i], v)]
SMatMul(m, n) ==
    <<>> \o [i \in 1..Rows(m) |-> <<>> \o [j \in 1..Cols(n) |-> SInner(m[i], Column(n, j))]]
SScale(v, c) == <<>> \o [k \in 1..Len(v) |-> SMul(v[k], c)]

\* a sequence without its k-th element
Without(s, k) == <<>> \o [i \in 1..(Len(s) - 1) |-> IF i < k THEN s[i] ELSE s[i + 1]]

\* m without row i and column j
Minor(m, i, j) == <<>> \o [r \in 1..(Rows(m) - 1) |-> Without(Without(m, i)[r], j)]

Signed(k, x) == IF k % 2 = 0 THEN x ELSE CNeg(x)

\* the determinant, by expansion along the first row
RECURSIVE SDet(_)
SDet(m) ==
    IF Rows(m) = 0 THEN One
    ELSE SumSeq(<<>> \o [j \in 1..Rows(m) |->
                    IF m[1][j] = Zero THEN Zero
                    ELSE Signed(1 + j, SMul(m[1][j], SDet(Minor(m, 1, j))))])

\* the inverse: the transposed cofactors divided by the determinant
SInverse(m) ==
    CHOOSE r \in { <<>> \o [i \in 1..Rows(m) |-> <<>> \o [j \in 1..Rows(m) |->
                      SDiv(Signed(i + j, SDet(Minor(m, j, i))), det)]] :
                   det \in {SDet(m)} } : TRUE

Ones(n) == [k \in 1..n |-> One]

\* mutant of IdentityMatrix: the first basis vector in every column (one
\* eigenvector found for a repeated eigenvalue, returned for each copy of it)
FirstBasisVectorOnly(n) == [i \in 1..n |-> [j \in 1..n |-> IF i = 1 THEN One ELSE Zero]]

IdentityMatrix(n) == [i \in 1..n |-> [j \in 1..n |-> IF i = j THEN One ELSE Zero]]
IsDiagonalN(m) == \A i \in 1..Rows(m) : \A j \in 1..Cols(m) : i # j => m[i][j] = Zero

(* Arrays of these numbers have kind "surd".  The unit eigenvectors of the  *)
(* source's matrix need further square roots (their lengths), which are     *)
(* kept apart from the entries: a 2-D array is [kind, d, rs, cs] and stands *)
(* for the matrix with entries d[i][j] * sqrt(rs[i]) * sqrt(cs[j]); a 1-D   *)
(* array is [kind, d, s] and stands for the vector d[k] * sqrt(s).          *)

Surd1(d, s) == [kind |-> "surd", d |-> d, s |-> s]
Surd2(d, rs, cs) == [kind |-> "surd", d |-> d, rs |-> rs, cs |-> cs]
Irrational == [kind |-> "irrational", d |-> <<>>]

\* x[:, j] of an array whose rows carry no square root
surdColumn(x, j) == Surd1(Column(x.d, j), x.cs[j])

\* x.dot(v) for an integer 2-D x and a 1-D v
surdDotVec(x, v) == Surd1(SMatVec(x.d, v.d), v.s)

\* v * c for a 1-D v and a scalar c
surdTimes(v, c) == Surd1(SScale(v.d, c), v.s)

\* diag(v) of a 1-D array without a square root
surdDiag(v) ==
    Surd2([i \in 1..Len(v.d) |-> [j \in 1..Len(v.d) |-> IF i = j THEN v.d[i] ELSE Zero]],
          Ones(Len(v.d)), Ones(Len(v.d)))

\* x.dot(y): column k of x meets row k of y, whose square roots multiply to
\* sqrt(x.cs[k] * y.rs[k]).  With a diagonal y that factor moves to column k
\* of the product; otherwise the product is one of these arrays if every such
\* factor is 1.
surdDot(x, y) ==
    IF IsDiagonalN(y.d)
    THEN Surd2(SMatMul(x.d, y.d), x.rs,
               [k \in 1..Cols(y.d) |-> SMul(SMul(x.cs[k], y.rs[k]), y.cs[k])])
    ELSE IF \A k \in 1..Cols(x.d) : SMul(x.cs[k], y.rs[k]) = One
    THEN Surd2(SMatMul(x.d, y.d), x.rs, y.cs)
    ELSE Irrational

\* inv(x): the inverse of diag(sqrt rs) d diag(sqrt cs) is
\* diag(1/sqrt cs) d^-1 diag(1/sqrt rs)
surdInv(x) ==
    IF ~IsSquareShape(x.d) THEN [err |-> NotSquareError, val |-> Unbound]
    ELSE IF SDet(x.d) = Zero THEN [err |-> SingularError, val |-> Unbound]
    ELSE [err |-> NoError,
          val |-> Surd2(SInverse(x.d),
                        [i \in 1..Rows(x.d) |-> SDiv(One, x.cs[i])],
                        [j \in 1..Rows(x.d) |-> SDiv(One, x.rs[j])])]

JoinKind(x, y) ==
    IF x.kind = "illcond" \/ y.kind = "illcond" THEN "illcond"
    ELSE IF x.kind = "perturbed" \/ y.kind = "perturbed" THEN "perturbed"
    ELSE "exact"

\* x.dot(y) for a 2-D x and a 2-D y
dot(x, y) ==
    IF x.kind = "surd" \/ y.kind = "surd" THEN surdDot(x, y)
    ELSE IF JoinKind(x, y) = "illcond" THEN IllCond
    ELSE [kind |-> JoinKind(x, y), d |-> MatMul(x.d, y.d)]

\* x.dot(v) for a 2-D x and a 1-D v
dotVec(x, v) ==
    IF v.kind = "surd" THEN surdDotVec(x, v)
    ELSE IF JoinKind(x, v) = "illcond" THEN IllCond
    ELSE [kind |-> JoinKind(x, v), d |-> MatVec(x.d, v.d)]

\* v * c for a 1-D v and a scalar c
times(v, c) ==
    IF v.kind = "surd" THEN surdTimes(v, c)
    ELSE [kind |-> v.kind, d |-> Scale(v.d, c)]

\* x[:, j] (0-based j in the source, 1-based here)
column(x, j) ==
    IF x.kind = "surd" THEN surdColumn(x, j)
    ELSE [kind |-> x.kind, d |-> Column(x.d, j)]

\* x[j] of a 1-D array
item(x, j) == x.d[j]

\* diag(v) of a 1-D array: the square matrix with v on the diagonal
diag(v) ==
    IF v.kind = "surd" THEN surdDiag(v)
    ELSE [kind |-> v.kind,
          d |-> [i \in 1..Len(v.d) |-> [j \in 1..Len(v.d) |-> IF i = j THEN v.d[i] ELSE Zero]]]

Det(m) ==
    IF Rows(m) = 1 THEN m[1][1]
    ELSE CSub(CMul(m[1][1], m[2][2]), CMul(m[1][2], m[2][1]))

Adjugate(m) ==
    IF Rows(m) = 1 THEN <<<<One>>>>
    ELSE <<<<m[2][2], CNeg(m[1][2])>>, <<CNeg(m[2][1]), m[1][1]>>>>

\* mutant of inv: every matrix whose exact determinant is 0 is refused, also
\* one whose stored doubles are not singular
invStrict(x) ==
    IF ~IsSquareShape(x.d) THEN [err |-> NotSquareError, val |-> Unbound]
    ELSE IF Det(x.d) = Zero THEN [err |-> SingularError, val |-> Unbound]
    ELSE [err |-> NoError,
          val |-> [kind |-> x.kind,
                   d |-> [i \in 1..Rows(x.d) |-> [j \in 1..Rows(x.d) |->
                            CDiv(Adjugate(x.d)[i][j], Det(x.d))]]]]

\* numpy.linalg.inv: [err, val].  A non-square argument and an exactly
\* singular one raise LinAlgError; a matrix that is singular only up to
\* round-off is inverted without an error.
inv(x) ==
    IF x.kind = "surd" THEN surdInv(x)
    ELSE IF ~IsSquareShape(x.d) THEN [err |-> NotSquareError, val |-> Unbound]
    ELSE IF Det(x.d) = Zero
         THEN IF x.kind = "exact" THEN [err |-> SingularError, val |-> Unbound]
              ELSE [err |-> NoError, val |-> IllCond]
    ELSE [err |-> NoError,
          val |-> [kind |-> x.kind,
                   d |-> [i \in 1..Rows(x.d) |-> [j \in 1..Rows(x.d) |->
                            CDiv(Adjugate(x.d)[i][j], Det(x.d))]]]]

----------------------------------------------------------------------------
(* numpy.linalg.eig for 1x1 and 2x2 real matrices, in closed form.  LAPACK *)
(* iterates; the result it converges to is, up to rounding, order and the  *)
(* sign of each vector, the one computed here: the roots of the            *)
(* characteristic polynomial and, for each root, a null vector of          *)
(* A - lambda I scaled to Euclidean length 1.                              *)

Trace(m) == CAdd(m[1][1], m[2][2])
Disc(m) == CSub(CMul(Trace(m), Trace(m)), CMul(Cx(4), Det(m)))
IsDiagonal(m) == m[1][2] = Zero /\ m[2][1] = Zero

\* a square root of a real rational: real when q >= 0, imaginary otherwise
CSqrt(q) ==
    IF q[1] >= 0 THEN Sqrt(q)
    ELSE LET r == Sqrt(CNeg(q)) IN <<0, r[1], r[3]>>

Half(x) == CDiv(x, Cx(2))

\* the two roots of the characteristic polynomial of a 2x2 matrix
Eigenvalues2(m) ==
    IF IsDiagonal(m) THEN <<m[1][1], m[2][2]>>
    ELSE <<Half(CAdd(Trace(m), CSqrt(Disc(m)))), Half(CSub(Trace(m), CSqrt(Disc(m))))>>

\* a non-zero solution w of (m - lambda I) w = 0, for a non-diagonal m
NullVector(m, lambda) ==
    IF m[1][2] # Zero THEN <<m[1][2], CSub(lambda, m[1][1])>>
    ELSE <<CSub(lambda, m[2][2]), m[2][1]>>

Norm2(w) == SumSeq([k \in 1..Len(w) |-> CAbs2(w[k])])

\* mutant of Normalize: the null vector is returned as found
NormalizeSkipped(w) == w

\* w scaled to Euclidean length 1
Normalize(w) == [k \in 1..Len(w) |-> CDiv(w[k], Sqrt(Norm2(w)))]

Eigenvectors2(m) ==
    IF IsDiagonal(m) THEN <<<<One, Zero>>, <<Zero, One>>>>
    ELSE LET v1 == Normalize(NullVector(m, Eigenvalues2(m)[1]))
             v2 == Normalize(NullVector(m, Eigenvalues2(m)[2]))
         IN  <<<<v1[1], v2[1]>>, <<v1[2], v2[2]>>>>

\* a 2x2 matrix with a repeated eigenvalue and a single eigenvector direction
Defective(m) ==
    /\ Rows(m) = 2 /\ Cols(m) = 2
    /\ ~IsDiagonal(m)
    /\ Disc(m) = Zero

(* numpy.linalg.eig for larger matrices: a diagonal matrix of any size, and *)
(* a singular 3x3 matrix, whose characteristic polynomial                   *)
(* x^3 - t x^2 + p x (t the trace, p the sum of the principal 2x2 minors)   *)
(* has the root 0 and the two roots of x^2 - t x + p.                       *)

TraceN(m) == SumSeq([i \in 1..Rows(m) |-> m[i][i]])
PrincipalMinors(m) == SumSeq([i \in 1..Rows(m) |-> SDet(Minor(m, i, i))])
Disc3(m) == CSub(SMul(TraceN(m), TraceN(m)), SMul(Cx(4), PrincipalMinors(m)))

\* mutant of Eigenvalues3: the roots of x^2 - t x + p without the division by 2
Eigenvalues3NotHalved(m) ==
    << CAdd(TraceN(m), SSqrt(Disc3(m))), CSub(TraceN(m), SSqrt(Disc3(m))), Zero >>

\* in the order numpy prints them for the source's matrix
Eigenvalues3(m) ==
    CHOOSE r \in { << SDiv(CAdd(t, root), Cx(2)), SDiv(CSub(t, root), Cx(2)), Zero >> :
                   t \in {TraceN(m)}, root \in {SSqrt(Disc3(m))} } : TRUE

Shifted(m, lambda) ==
    [i \in 1..Rows(m) |-> <<>> \o [j \in 1..Cols(m) |->
        IF i = j THEN CSub(m[i][j], lambda) ELSE m[i][j]]]

Cross(u, v) ==
    << CSub(SMul(u[2], v[3]), SMul(u[3], v[2])),
       CSub(SMul(u[3], v[1]), SMul(u[1], v[3])),
       CSub(SMul(u[1], v[2]), SMul(u[2], v[1])) >>

\* a non-zero solution w of (m - lambda I) w = 0 for a simple eigenvalue of a
\* 3x3 matrix: orthogonal to two independent rows of m - lambda I
NullVector3(m, lambda) ==
    CHOOSE w \in { IF c12 # <<Zero, Zero, Zero>> THEN c12
                   ELSE IF Cross(s[1], s[3]) # <<Zero, Zero, Zero>> THEN Cross(s[1], s[3])
                   ELSE Cross(s[2], s[3]) :
                   s \in { <<Shifted(m, l)[1], Shifted(m, l)[2], Shifted(m, l)[3]>> : l \in {lambda} },
                   c12 \in { Cross(Shifted(m, l)[1], Shifted(m, l)[2]) : l \in {lambda} } } : TRUE

Lcm(a, b) == (a \div GCD(a, b)) * b

RECURSIVE LcmDen(_)
LcmDen(w) == IF w = <<>> THEN 1 ELSE Lcm(w[1][3], LcmDen(Tail(w)))

RECURSIVE GcdCoefficients(_)
GcdCoefficients(w) ==
    IF w = <<>> THEN 0 ELSE GCD(GCD(Abs(w[1][1]), Abs(w[1][2])), GcdCoefficients(Tail(w)))

\* the direction of w with integer coefficients without a common factor
Cleared(w, l) == <<>> \o [k \in 1..Len(w) |-> <<w[k][1] * (l \div w[k][3]), w[k][2] * (l \div w[k][3]), 1>>]

Reduced(w, g) == <<>> \o [k \in 1..Len(w) |-> <<w[k][1] \div g, w[k][2] \div g, 1>>]

Primitive(w) ==
    CHOOSE r \in { Reduced(c, GcdCoefficients(c)) :
                   c \in { Cleared(v, LcmDen(v)) : v \in {w} } } : TRUE

\* the square of the Euclidean length of a real vector
SNorm2(w) == SInner(w, w)

\* the matrix whose column j is a unit eigenvector of Eigenvalues3(m)[j]: a
\* direction in d, the reciprocal of the square of its length in cs
Eigenvectors3(m) ==
    CHOOSE q \in { Surd2([i \in 1..3 |-> [j \in 1..3 |-> v[j][i]]],
                         Ones(3),
                         [j \in 1..3 |-> SDiv(One, SNorm2(v[j]))]) :
                   v \in { <<Primitive(NullVector3(m, lambda[1])),
                             Primitive(NullVector3(m, lambda[2])),
                             Primitive(NullVector3(m, lambda[3]))>> :
                           lambda \in {Eigenvalues3(m)} } } : TRUE

\* eig(x) for a square x with three or more rows
eigN(x) ==
    CASE IsDiagonalN(x.d) ->
            [err |-> NoError,
             values |-> Surd1([i \in 1..Rows(x.d) |-> x.d[i][i]], One),
             vectors |-> Surd2(IdentityMatrix(Rows(x.d)), Ones(Rows(x.d)), Ones(Rows(x.d)))]
      [] ~IsDiagonalN(x.d) /\ Rows(x.d) = 3 /\ SDet(x.d) = Zero /\ SHasSqrt(Disc3(x.d)) ->
            [err |-> NoError,
             values |-> Surd1(Eigenvalues3(x.d), One),
             vectors |-> Eigenvectors3(x.d)]

\* mutant of eig: no shape check, the leading 1x1 block is decomposed
eigUnchecked(x, obs) ==
    [err |-> NoError, values |-> Exact(<<x.d[1][1]>>), vectors |-> Exact(<<<<One>>>>)]

\* eig(x): [err, values, vectors]; column j of vectors belongs to values[j].
\* obs: the defective matrices for which round-off obscures the dependence
\* of the returned columns.
eig(x, obs) ==
    IF ~IsSquareShape(x.d)
    THEN [err |-> NotSquareError, values |-> Unbound, vectors |-> Unbound]
    ELSE IF Rows(x.d) = 1
    THEN [err |-> NoError, values |-> Exact(<<x.d[1][1]>>), vectors |-> Exact(<<<<One>>>>)]
    ELSE IF Rows(x.d) >= 3 THEN eigN(x)
    ELSE [err |-> NoError,
          values |-> Exact(Eigenvalues2(x.d)),
          vectors |-> [kind |-> IF Defective(x.d) /\ x.d \in obs THEN "perturbed" ELSE "exact",
                       d |-> Eigenvectors2(x.d)]]

----------------------------------------------------------------------------
(* The matrix literals the cells are run with.  The source runs every cell *)
(* with [[1,2,3],[4,5,6],[7,8,9]]; here the literal ranges over matrices   *)
(* whose eigenpairs are complex rationals, two of them in every integer    *)
(* multiple up to MaxScale.                                                *)

MaxScale == 1

FixedMatrices ==
    { <<<<1, 0>>, <<0, 1>>>>,       \* identity: repeated eigenvalue, diagonalizable
      <<<<1, 1>>, <<0, 1>>>>,       \* Jordan block: defective
      <<<<1, 2>>>> }                \* 1x2: not square

ScaledMatrices ==
    { <<<<1, 3>>, <<0, 5>>>>,       \* triangular, eigenvectors (1,0) and (3,4)/5
      <<<<0, 1>>, <<-8, 4>>>> }     \* complex pair 2 +- 2i, eigenvectors (1, 2 +- 2i)/3

ScaleLit(k, lit) == [i \in 1..Len(lit) |-> [j \in 1..Len(lit[i]) |-> k * lit[i][j]]]

Matrices == FixedMatrices \cup { ScaleLit(k, lit) : k \in 1..MaxScale, lit \in ScaledMatrices }

IsSquareLit(lit) == Len(lit) = Len(lit[1])
DefectiveInputs == { array(lit).d : lit \in { l \in Matrices : IsSquareLit(l) /\ Defective(array(l).d) } }

----------------------------------------------------------------------------
(* The kernel of the eigendecomposition notebook.                          *)

Names == {"A", "values", "vectors", "B", "C", "Q", "R", "L"}

VARIABLES
    ns,         \* the kernel namespace: name -> array value or Unbound
    err,        \* the exception that ended the last cell run, or NoError
    out,        \* what the last cell run printed
    lastRun,    \* the cell last run, with its matrix literal and column index
    obscured    \* the defective inputs whose eigenvector dependence round-off obscures

eigVars == <<ns, err, out, lastRun, obscured>>

(* The kernel of the pseudorandom number notebook.                         *)
VARIABLES
    names,      \* what the names seed, random and rand are bound to
    pyGen,      \* the state of the generator of Python's random module
    npGen,      \* the state of the generator of numpy.random
    rngErr,     \* the exception that ended the last cell run, or NoError
    rngOut,     \* what the last cell run printed
    rngRun,     \* the cell last run, with its seed and its number of draws
    rngCount    \* the number of cell runs so far (the execution count)

rngVars == <<names, pyGen, npGen, rngErr, rngOut, rngRun, rngCount>>

(* The kernel of the stacked LSTM notebook.                                *)
VARIABLES
    model,      \* the Sequential model bound to the name model
    data,       \* the shape of the array bound to the name data
    kerasErr,   \* the exception that ended the last cell run, or NoError
    kerasOut,   \* the shapes of the arrays the last cell run printed
    kerasRun    \* the cell last run, with its arguments

kerasVars == <<model, data, kerasErr, kerasOut, kerasRun>>
vars == <<eigVars, rngVars, kerasVars>>

NameError == "NameError"
IndexError == "IndexError"

Start(ns0) == [ns |-> ns0, err |-> NoError, out |-> <<>>]
Bound(st, ids) == \A n \in ids : st.ns[n] # Unbound

\* name = val
Bind(st, name, val) ==
    IF st.err # NoError THEN st ELSE [st EXCEPT !.ns[name] = val]

\* print(name)
Print_(st, name) ==
    IF st.err # NoError THEN st
    ELSE IF ~Bound(st, {name}) THEN [st EXCEPT !.err = NameError]
    ELSE [st EXCEPT !.out = Append(@, st.ns[name])]

\* values, vectors = eig(A)
EigStmt(st) ==
    IF st.err # NoError THEN st
    ELSE IF ~Bound(st, {"A"}) THEN [st EXCEPT !.err = NameError]
    ELSE CHOOSE res \in { IF r.err # NoError THEN [st EXCEPT !.err = r.err]
                          ELSE [st EXCEPT !.ns["values"] = r.values, !.ns["vectors"] = r.vectors] :
                          r \in {eig(st.ns["A"], obscured)} } : TRUE

\* mutant of ConfirmLhsStmt: A is multiplied with the first column whatever i is
ConfirmLhsFirstColumn(st, i) ==
    IF st.err # NoError THEN st
    ELSE [st EXCEPT !.ns["B"] = dotVec(st.ns["A"], column(st.ns["vectors"], 1))]

\* B = A.dot(vectors[:, i])
ConfirmLhsStmt(st, i) ==
    IF st.err # NoError THEN st
    ELSE IF ~Bound(st, {"A", "vectors"}) THEN [st EXCEPT !.err = NameError]
    ELSE IF i > Cols(st.ns["vectors"].d) THEN [st EXCEPT !.err = IndexError]
    ELSE [st EXCEPT !.ns["B"] = dotVec(st.ns["A"], column(st.ns["vectors"], i))]

\* mutant of ConfirmRhsStmt: every column is scaled by the first eigenvalue
ConfirmRhsFirstValue(st, i) ==
    IF st.err # NoError THEN st
    ELSE [st EXCEPT !.ns["C"] = times(column(st.ns["vectors"], i), item(st.ns["values"], 1))]

\* C = vectors[:, i] * values[i]
ConfirmRhsStmt(st, i) ==
    IF st.err # NoError THEN st
    ELSE IF ~Bound(st, {"values", "vectors"}) THEN [st EXCEPT !.err = NameError]
    ELSE IF i > Cols(st.ns["vectors"].d) \/ i > Len(st.ns["values"].d)
         THEN [st EXCEPT !.err = IndexError]
    ELSE [st EXCEPT !.ns["C"] = times(column(st.ns["vectors"], i), item(st.ns["values"], i))]

\* mutant of QStmt: each eigenvector becomes a row of Q
QStmtRows(st) ==
    IF st.err # NoError THEN st
    ELSE [st EXCEPT !.ns["Q"] =
            [kind |-> st.ns["vectors"].kind,
             d |-> [j \in 1..Cols(st.ns["vectors"].d) |-> Column(st.ns["vectors"].d, j)]]]

\* Q = vectors
QStmt(st) ==
    IF st.err # NoError THEN st
    ELSE IF ~Bound(st, {"vectors"}) THEN [st EXCEPT !.err = NameError]
    ELSE [st EXCEPT !.ns["Q"] = st.ns["vectors"]]

\* R = inv(Q)
RStmt(st) ==
    IF st.err # NoError THEN st
    ELSE IF ~Bound(st, {"Q"}) THEN [st EXCEPT !.err = NameError]
    ELSE CHOOSE res \in { IF r.err # NoError THEN [st EXCEPT !.err = r.err]
                          ELSE [st EXCEPT !.ns["R"] = r.val] :
                          r \in {inv(st.ns["Q"])} } : TRUE

\* mutant of LStmt: the eigenvalues are put on the diagonal in reverse order
LStmtReversed(st) ==
    IF st.err # NoError THEN st
    ELSE [st EXCEPT !.ns["L"] =
            diag([kind |-> st.ns["values"].kind,
                  d |-> [k \in 1..Len(st.ns["values"].d) |->
                           st.ns["values"].d[Len(st.ns["values"].d) + 1 - k]]])]

\* mutant of LStmt: only the first eigenvalue is put on the diagonal, so that
\* a complex eigenvalue is left without its conjugate
LStmtFirstOnly(st) ==
    IF st.err # NoError THEN st
    ELSE [st EXCEPT !.ns["L"] =
            diag([kind |-> st.ns["values"].kind,
                  d |-> [k \in 1..Len(st.ns["values"].d) |->
                           IF k = 1 THEN st.ns["values"].d[k] ELSE Zero]])]

\* L = diag(values)
LStmt(st) ==
    IF st.err # NoError THEN st
    ELSE IF ~Bound(st, {"values"}) THEN [st EXCEPT !.err = NameError]
    ELSE [st EXCEPT !.ns["L"] = diag(st.ns["values"])]

\* mutant of BStmt: the factors in the order R . L . Q
BStmtReversed(st) ==
    IF st.err # NoError THEN st
    ELSE [st EXCEPT !.ns["B"] = dot(dot(st.ns["R"], st.ns["L"]), st.ns["Q"])]

\* mutant of BStmt: the factors in the order Q . R . L
BStmtInverseMiddle(st) ==
    IF st.err # NoError THEN st
    ELSE [st EXCEPT !.ns["B"] = dot(dot(st.ns["Q"], st.ns["R"]), st.ns["L"])]

\* B = Q.dot(L).dot(R)
BStmt(st) ==
    IF st.err # NoError THEN st
    ELSE IF ~Bound(st, {"Q", "L", "R"}) THEN [st EXCEPT !.err = NameError]
    ELSE [st EXCEPT !.ns["B"] = dot(dot(st.ns["Q"], st.ns["L"]), st.ns["R"])]

\* one statement of a cell, applied to the state of the run
Step(st, stmt) ==
    CASE stmt[1] = "A = array" -> Bind(st, "A", array(stmt[2]))
      [] stmt[1] = "print" -> Print_(st, stmt[2])
      [] stmt[1] = "values, vectors = eig(A)" -> EigStmt(st)
      [] stmt[1] = "B = A.dot(vectors[:, i])" -> ConfirmLhsStmt(st, stmt[2])
      [] stmt[1] = "C = vectors[:, i] * values[i]" -> ConfirmRhsStmt(st, stmt[2])
      [] stmt[1] = "Q = vectors" -> QStmt(st)
      [] stmt[1] = "R = inv(Q)" -> RStmt(st)
      [] stmt[1] = "L = diag(values)" -> LStmt(st)
      [] stmt[1] = "B = Q.dot(L).dot(R)" -> BStmt(st)

\* the statements of a cell in order; the first exception ends the run (every
\* statement passes a failed state on unchanged)
RECURSIVE Exec(_, _)
Exec(st0, prog) ==
    IF prog = <<>> THEN st0
    ELSE CHOOSE r \in { Exec(Step(st, Head(prog)), Tail(prog)) : st \in {st0} } : TRUE

\* the "eigendecomposition" cell
EigCell(ns0, lit) ==
    Exec(Start(ns0),
         << <<"A = array", lit>>,
            <<"print", "A">>,
            <<"values, vectors = eig(A)">>,
            <<"print", "values">>,
            <<"print", "vectors">> >>)

\* the "confirm eigenvector" cell, for column i (the source confirms the first)
ConfirmCell(ns0, lit, i) ==
    Exec(Start(ns0),
         << <<"A = array", lit>>,
            <<"values, vectors = eig(A)">>,
            <<"B = A.dot(vectors[:, i])", i>>,
            <<"print", "B">>,
            <<"C = vectors[:, i] * values[i]", i>>,
            <<"print", "C">> >>)

\* mutant of ReconstructCell: the eigendecomposition is not recomputed, the
\* values and vectors an earlier cell left in the namespace are used
ReconstructCellStale(ns0, lit) ==
    Exec(Start(ns0),
         << <<"A = array", lit>>,
            <<"print", "A">>,
            <<"Q = vectors">>,
            <<"R = inv(Q)">>,
            <<"L = diag(values)">>,
            <<"B = Q.dot(L).dot(R)">>,
            <<"print", "B">> >>)

\* mutant of ReconstructCell: B is computed before Q is inverted, from the R
\* an earlier run left in the namespace
ReconstructCellEarlyB(ns0, lit) ==
    Exec(Start(ns0),
         << <<"A = array", lit>>,
            <<"print", "A">>,
            <<"values, vectors = eig(A)">>,
            <<"Q = vectors">>,
            <<"L = diag(values)">>,
            <<"B = Q.dot(L).dot(R)">>,
            <<"R = inv(Q)">>,
            <<"print", "B">> >>)

\* the "reconstruct matrix" cell
ReconstructCell(ns0, lit) ==
    Exec(Start(ns0),
         << <<"A = array", lit>>,
            <<"print", "A">>,
            <<"values, vectors = eig(A)">>,
            <<"Q = vectors">>,
            <<"R = inv(Q)">>,
            <<"L = diag(values)">>,
            <<"B = Q.dot(L).dot(R)">>,
            <<"print", "B">> >>)

Finish(res, cell, lit, i) ==
    \E r \in {res} :
    /\ ns' = r.ns
    /\ err' = r.err
    /\ out' = r.out
    /\ lastRun' = [cell |-> cell, lit |-> lit, i |-> i]
    /\ UNCHANGED <<obscured, rngVars, kerasVars>>

RunEigCell ==
    \E lit \in Matrices : Finish(EigCell(ns, lit), "eig", lit, 0)

RunConfirmCell ==
    \E lit \in Matrices : \E i \in 1..Len(lit) : Finish(ConfirmCell(ns, lit, i), "confirm", lit, i)

RunReconstructCell ==
    \E lit \in Matrices : Finish(ReconstructCell(ns, lit), "reconstruct", lit, 0)

NoRun == [cell |-> "none", lit |-> <<>>, i |-> 0]

EigInit ==
    /\ ns = [n \in Names |-> Unbound]
    /\ err = NoError
    /\ out = <<>>
    /\ lastRun = NoRun

NoRngRun == [cell |-> "none", seed |-> 0, draws |-> 0]

RngInit ==
    /\ names = [n \in {"seed", "random", "rand"} |-> "unbound"]
    /\ rngErr = NoError
    /\ rngOut = <<>>
    /\ rngRun = NoRngRun
    /\ rngCount = 0

NoModel == [bound |-> FALSE, layers |-> <<>>, input_shape |-> <<>>, output_shape |-> <<>>, compiled |-> FALSE]
NoKerasRun == [cell |-> "none", return_sequences |-> <<>>, units |-> 0, input_shape |-> <<>>, shape |-> <<>>]

KerasInit ==
    /\ model = NoModel
    /\ data = <<>>
    /\ kerasErr = NoError
    /\ kerasOut = <<>>
    /\ kerasRun = NoKerasRun

\* a fresh kernel of the eigendecomposition notebook
Init ==
    /\ EigInit
    /\ obscured \in SUBSET DefectiveInputs
    /\ RngInit /\ pyGen = 0 /\ npGen = 0
    /\ KerasInit

Next == RunEigCell \/ RunConfirmCell \/ RunReconstructCell

Spec == Init /\ [][Next]_vars

----------------------------------------------------------------------------
(* The same kernel and the same cells, run with the matrix the source      *)
(* gives them and with identity matrices of the sizes 1 to MaxDim.         *)

MaxDim == 3

SourceMatrix == <<<<1, 2, 3>>, <<4, 5, 6>>, <<7, 8, 9>>>>

IdentityLit(n) == [i \in 1..n |-> [j \in 1..n |-> IF i = j THEN 1 ELSE 0]]

SourceMatrices == {SourceMatrix} \cup { IdentityLit(n) : n \in 1..MaxDim }

RunEigCellSource ==
    \E lit \in SourceMatrices : Finish(EigCell(ns, lit), "eig", lit, 0)

RunConfirmCellSource ==
    \E lit \in SourceMatrices : \E i \in 1..Len(lit) :
        Finish(ConfirmCell(ns, lit, i), "confirm", lit, i)

RunReconstructCellSource ==
    \E lit \in SourceMatrices : Finish(ReconstructCell(ns, lit), "reconstruct", lit, 0)

InitSource ==
    /\ EigInit
    /\ obscured = {}
    /\ RngInit /\ pyGen = 0 /\ npGen = 0
    /\ KerasInit

NextSource == RunEigCellSource \/ RunConfirmCellSource \/ RunReconstructCellSource

SpecSource == InitSource /\ [][NextSource]_vars

----------------------------------------------------------------------------
(* Properties of the eigendecomposition notebook.                          *)

Ran(cell) == lastRun.cell = cell
LastA == array(lastRun.lit).d
SquareRun == lastRun.cell # "none" /\ IsSquareLit(lastRun.lit)
Diagonalizable(lit) == IsSquareLit(lit) /\ ~Defective(array(lit).d)
Dim == Rows(ns["vectors"].d)

C2_EveryPairConfirmed ==
    (Ran("confirm") /\ IsSquareLit(lastRun.lit))
        => /\ err = NoError
           /\ ns["B"].d = ns["C"].d

\* the second eigenpair of a matrix with two different eigenvalues is confirmed
C2_Witness ==
    /\ Ran("confirm") /\ lastRun.i = 2
    /\ ns["values"].d[1] # ns["values"].d[2]
    /\ ns["B"].d = ns["C"].d

\* C3: every column of the eigenvector matrix bound by eig has Euclidean
\* length 1, for real and for complex eigenvectors.
C3_UnitLength ==
    ns["vectors"] # Unbound
        => \A j \in 1..Dim : Norm2(Column(ns["vectors"].d, j)) = One

\* a unit eigenvector with a non-real component
C3_Witness ==
    /\ ns["vectors"] # Unbound
    /\ \E j \in 1..Dim :
          /\ \E i \in 1..Dim : ~IsReal(ns["vectors"].d[i][j])
          /\ Norm2(Column(ns["vectors"].d, j)) = One

\* C4: a cell run with a matrix that is not square ends with the LinAlgError
\* eig raises for a non-square argument, and binds no eigenvalues and no
\* eigenvectors: values and vectors keep what they held before the run.
C4_NonSquareFails ==
    [][(lastRun'.cell # "none" /\ ~IsSquareLit(lastRun'.lit))
          => /\ err' = NotSquareError
             /\ ns'["values"] = ns["values"]
             /\ ns'["vectors"] = ns["vectors"]]_vars

\* the first cell ever run has a non-square matrix: it fails, nothing is bound
C4_Witness ==
    /\ lastRun.cell = "eig" /\ ~IsSquareLit(lastRun.lit)
    /\ err = NotSquareError
    /\ ns["values"] = Unbound /\ ns["vectors"] = Unbound

C6_PairingByIndex ==
    (lastRun.cell # "none" /\ err # NotSquareError) =>
        /\ \A j \in 1..Dim :
              MatVec(ns["A"].d, Column(ns["vectors"].d, j))
                  = Scale(Column(ns["vectors"].d, j), ns["values"].d[j])
        /\ (Ran("confirm") /\ err = NoError)
              => ns["C"].d = Scale(Column(ns["vectors"].d, lastRun.i), ns["values"].d[lastRun.i])
        /\ (Ran("reconstruct") /\ err = NoError)
              => /\ ns["Q"] = ns["vectors"]
                 /\ \A j \in 1..Dim : ns["L"].d[j][j] = ns["values"].d[j]

\* a reconstruction from two different eigenvalues, each on the diagonal of L
\* at the index of its eigenvector
C6_Witness ==
    /\ Ran("reconstruct") /\ err = NoError /\ Dim = 2
    /\ ns["values"].d[1] # ns["values"].d[2]
    /\ ns["L"].d[1][1] = ns["values"].d[1]
    /\ ns["L"].d[2][2] = ns["values"].d[2]

EmptyNs == [n \in Names |-> Unbound]

\* the last cell run, run again in a kernel that has run nothing
FreshRun ==
    IF Ran("eig") THEN EigCell(EmptyNs, lastRun.lit)
    ELSE IF Ran("confirm") THEN ConfirmCell(EmptyNs, lastRun.lit, lastRun.i)
    ELSE IF Ran("reconstruct") THEN ReconstructCell(EmptyNs, lastRun.lit)
    ELSE Start(EmptyNs)

\* C7: a cell leaves its matrix as it was given; the eigenvalues and
\* eigenvectors are not changed by the statements that use them; and the
\* outcome of a cell (error, printed output, every name it binds) is the one
\* it has in a kernel that has run nothing before.
C7_CellsArePure ==
    lastRun.cell # "none" =>
        /\ ns["A"] = array(lastRun.lit)
        /\ err # NotSquareError =>
              \A e \in {eig(ns["A"], obscured)} :
                  ns["values"] = e.values /\ ns["vectors"] = e.vectors
        /\ \A fresh \in {FreshRun} :
              /\ err = fresh.err
              /\ out = fresh.out
              /\ \A n \in Names : fresh.ns[n] # Unbound => ns[n] = fresh.ns[n]

\* a reconstruction in a kernel where an earlier confirm cell left the
\* vector C of another matrix
C7_Witness ==
    /\ Ran("reconstruct") /\ err = NoError
    /\ ns["C"] # Unbound
    /\ \A j \in 1..Dim :
          ns["C"].d # Scale(Column(ns["vectors"].d, j), ns["values"].d[j])

\* the error a cell run ends with, as a function of the cell and its matrix
ExpectedError(run) ==
    IF run.cell = "none" THEN NoError
    ELSE IF ~IsSquareLit(run.lit) THEN NotSquareError
    ELSE IF run.cell = "reconstruct" /\ Defective(array(run.lit).d)
            /\ array(run.lit).d \notin obscured
    THEN SingularError
    ELSE NoError

\* C8: the error a cell run ends with depends on the cell and its matrix only,
\* so a failing input fails with the same error on every call; a run that
\* fails in eig binds no values, vectors, B or C, and a run that fails in inv
\* binds no R, L or B.
C8_FailuresDeterministicAllOrNothing ==
    [][/\ err' = ExpectedError(lastRun')
       /\ err' = NotSquareError
             => \A n \in Names \ {"A"} : ns'[n] = ns[n]
       /\ err' = SingularError
             => \A n \in {"R", "L", "B", "C"} : ns'[n] = ns[n]]_vars

\* a reconstruction fails in inv while B holds the result of an earlier run
C8_Witness ==
    /\ Ran("reconstruct") /\ err = SingularError
    /\ ns["B"] # Unbound
    /\ ns["Q"] = ns["vectors"]

RowIsEigenvector(i) ==
    MatVec(LastA, Row(ns["Q"].d, i)) = Scale(Row(ns["Q"].d, i), ns["values"].d[i])

\* column j of Q is an eigenvector of A for the j-th eigenvalue
ColumnIsEigenvector(j) ==
    MatVec(LastA, Column(ns["Q"].d, j)) = Scale(Column(ns["Q"].d, j), ns["values"].d[j])

\* L is the diagonal matrix of the eigenvalues, R the inverse of Q, and B the
\* product of the three
FactorsMultiplied ==
    /\ \A i, j \in 1..Dim : ns["L"].d[i][j] = IF i = j THEN ns["values"].d[j] ELSE Zero
    /\ MatMul(ns["Q"].d, ns["R"].d) = IdentityMatrix(Dim)
    /\ ns["B"].d = MatMul(MatMul(ns["Q"].d, ns["L"].d), ns["R"].d)

HasComplexPair == \E j \in 1..Dim : ~IsReal(ns["values"].d[j])
AllReal(m) == \A i \in 1..Rows(m) : \A j \in 1..Cols(m) : IsReal(m[i][j])

\* C18: when the reconstruct cell is given a real matrix with eigenvalues
\* that are not real, the eigenvalues and the columns of Q come in conjugate
\* pairs, the product Q . L has entries that are not real, and every entry
\* of the B the cell binds and prints is real: B is the matrix A.
C18_ComplexPairsCancel ==
    (Ran("reconstruct") /\ err = NoError /\ HasComplexPair) =>
        /\ AllReal(LastA)
        /\ \A j \in 1..Dim : \E k \in 1..Dim :
              /\ ns["values"].d[k] = CConj(ns["values"].d[j])
              /\ \A i \in 1..Dim : ns["Q"].d[i][k] = CConj(ns["Q"].d[i][j])
        /\ ~AllReal(MatMul(ns["Q"].d, ns["L"].d))
        /\ ns["B"].kind = "exact"
        /\ AllReal(ns["B"].d)
        /\ ns["B"].d = LastA
        /\ out[Len(out)] = ns["B"]

\* the matrix with the eigenvalues 2 + 2i and 2 - 2i is reconstructed
C18_Witness ==
    /\ Ran("reconstruct") /\ err = NoError
    /\ lastRun.lit = <<<<0, 1>>, <<-8, 4>>>>
    /\ ns["values"].d = <<<<2, 2, 1>>, <<2, -2, 1>>>>
    /\ ~AllReal(ns["Q"].d) /\ ~AllReal(ns["L"].d) /\ ~AllReal(ns["R"].d)
    /\ AllReal(ns["B"].d)

----------------------------------------------------------------------------
(* Properties of the cells run with the source's matrix and with identity  *)
(* matrices.                                                               *)

FloorSqrt(n) == CHOOSE r \in 0..n : r * r <= n /\ n < (r + 1) * (r + 1)

\* the sign of a + b*sqrt(Radicand).  For a and b of different signs |a| is
\* compared with |b|*sqrt(Radicand): through the integers around the root
\* where they decide, through the squares otherwise
SSign(x) ==
    IF x[1] = 0 /\ x[2] = 0 THEN 0
    ELSE IF x[1] >= 0 /\ x[2] >= 0 THEN 1
    ELSE IF x[1] <= 0 /\ x[2] <= 0 THEN -1
    ELSE LET g == GCD(Abs(x[1]), Abs(x[2]))
             a == Abs(x[1]) \div g
             b == Abs(x[2]) \div g
             larger == IF a >= (FloorSqrt(Radicand) + 1) * b THEN "a"
                       ELSE IF a <= FloorSqrt(Radicand) * b THEN "b"
                       ELSE IF a * a > Radicand * b * b THEN "a" ELSE "b"
         IN  IF larger = "a" THEN (IF x[1] > 0 THEN 1 ELSE -1)
             ELSE (IF x[2] > 0 THEN 1 ELSE -1)

SLess(x, y) == SSign(CSub(x, y)) < 0
SLessEq(x, y) == SSign(CSub(x, y)) <= 0

\* the decimal expansion of x begins with the digits of n / 10^4:
\* n/10^4 <= x < (n+1)/10^4 for n >= 0, (n-1)/10^4 < x <= n/10^4 for n < 0
Digits4(x, n) ==
    IF n >= 0
    THEN SLessEq(Num(n, 0, 10000), x) /\ SLess(x, Num(n + 1, 0, 10000))
    ELSE SLess(Num(n - 1, 0, 10000), x) /\ SLessEq(x, Num(n, 0, 10000))

\* a 2-D array that stands for the integer matrix lit
IsMatrix(x, lit) ==
    /\ x.d = array(lit).d
    /\ x.kind = "surd" => (x.rs = Ones(Len(lit)) /\ x.cs = Ones(Len(lit)))
    /\ x.kind \in {"exact", "surd"}

\* C11: every cell run with A = [[1,2,3],[4,5,6],[7,8,9]] ends without an
\* error with exactly three eigenvalues bound to values: one is 16.1168..,
\* one is -1.1168.. and one is 0, at whatever index; and the reconstruct cell
\* binds B to A.
C11_SourceMatrixScenario ==
    (lastRun.cell # "none" /\ lastRun.lit = SourceMatrix) =>
        /\ err = NoError
        /\ Len(ns["values"].d) = 3
        /\ ns["values"].s = One
        /\ \E j1, j2, j3 \in 1..3 :
              /\ {j1, j2, j3} = 1..3
              /\ Digits4(ns["values"].d[j1], 161168)
              /\ Digits4(ns["values"].d[j2], -11168)
              /\ ns["values"].d[j3] = Zero
        /\ Ran("reconstruct") => IsMatrix(ns["B"], SourceMatrix)

\* the source's matrix is reconstructed from irrational eigenvalues and from
\* eigenvectors whose lengths are not 1 before they are normalized
C11_Witness ==
    /\ Ran("reconstruct") /\ lastRun.lit = SourceMatrix
    /\ ns["values"].d[1][2] # 0
    /\ ns["Q"].cs # Ones(3)
    /\ IsMatrix(ns["B"], SourceMatrix)

\* column j of the 2-D array x is the i-th standard basis vector or its negative
IsBasisColumn(x, j, i) ==
    /\ x.d[i][j] \in {One, CNeg(One)}
    /\ \A k \in 1..Rows(x.d) : k # i => x.d[k][j] = Zero
    /\ x.kind = "surd" => (x.rs[i] = One /\ x.cs[j] = One)

\* C12: every cell run with the identity matrix of size n, for n from 1 to
\* MaxDim, ends without an error with n eigenvalues, each of them 1, and
\* with eigenvectors that are the n standard basis vectors, each once, in
\* some order and up to sign; and the reconstruct cell binds B to the
\* identity matrix.
C12_IdentityScenario ==
    (lastRun.cell # "none" /\ lastRun.lit = IdentityLit(Len(lastRun.lit))) =>
        /\ err = NoError
        /\ Len(ns["values"].d) = Len(lastRun.lit)
        /\ \A j \in 1..Len(lastRun.lit) : ns["values"].d[j] = One
        /\ \E perm \in [1..Len(lastRun.lit) -> 1..Len(lastRun.lit)] :
              /\ \A j, k \in 1..Len(lastRun.lit) : perm[j] = perm[k] => j = k
              /\ \A j \in 1..Len(lastRun.lit) : IsBasisColumn(ns["vectors"], j, perm[j])
        /\ Ran("reconstruct") => IsMatrix(ns["B"], lastRun.lit)

\* the identity matrix of size 3 has been reconstructed from three eigenpairs
C12_Witness ==
    /\ Ran("reconstruct") /\ lastRun.lit = IdentityLit(3)
    /\ ns["values"].d = Ones(3)
    /\ \A j \in 1..3 : IsBasisColumn(ns["Q"], j, j)
    /\ IsMatrix(ns["B"], IdentityLit(3))

----------------------------------------------------------------------------
(* The pseudorandom number notebook.  Both libraries implement the         *)
(* Mersenne Twister; it is modelled as a deterministic generator over a    *)
(* small state space: seeding computes the state from the seed alone, a    *)
(* draw advances the state and returns a value computed from it.  The two  *)
(* libraries initialise the state from the seed differently (the source    *)
(* prints different sequences for seed 7).  The source seeds with 7 and    *)
(* draws 5 values; here the seed and the number of draws range over small  *)
(* sets.                                                                   *)

Modulus == 8
MaxSeed == 2
MaxDraws == 3
MaxRuns == 3

Seeds == 0..MaxSeed
GenStates == 0..(Modulus - 1)

\* one step of the generator
Advance(g) == (5 * g + 3) % Modulus

\* mutant of seedPy: the seed is mixed into the state the generator is in
seedPyMixed(g, s) == (g + 3 * s + 1) % Modulus

\* random.seed(s) on a generator in state g: the state after seeding
seedPy(g, s) == (3 * s + 1) % Modulus

\* numpy.random.seed(s) on a generator in state g: the state after seeding
seedNp(g, s) == (7 * s + 2) % Modulus

\* n draws from a generator in state g: [gen, values]
RECURSIVE Draws(_, _)
Draws(g, n) ==
    IF n = 0 THEN [gen |-> g, values |-> <<>>]
    ELSE CHOOSE r \in { [gen |-> d.gen, values |-> <<Advance(g)>> \o d.values] :
                          d \in {Draws(Advance(g), n - 1)} } : TRUE

RngStart == [names |-> names, py |-> pyGen, np |-> npGen, out |-> <<>>, err |-> NoError]

\* mutant of ImportStmt: a name that is bound already keeps its binding
ImportStmtIfUnbound(st, name, target) ==
    IF st.err # NoError \/ st.names[name] # "unbound" THEN st
    ELSE [st EXCEPT !.names[name] = target]

\* from <module> import <name>
ImportStmt(st, name, target) ==
    IF st.err # NoError THEN st ELSE [st EXCEPT !.names[name] = target]

\* mutant of SeedStmt: one generator state shared by both libraries
SeedStmtShared(st, s) ==
    IF st.err # NoError THEN st
    ELSE IF st.names["seed"] = "unbound" THEN [st EXCEPT !.err = NameError]
    ELSE [st EXCEPT !.py = seedPy(st.py, s), !.np = seedNp(st.np, s)]

\* seed(s): the function the name seed is bound to seeds its own generator
SeedStmt(st, s) ==
    IF st.err # NoError THEN st
    ELSE IF st.names["seed"] = "random.seed" THEN [st EXCEPT !.py = seedPy(st.py, s)]
    ELSE IF st.names["seed"] = "numpy.random.seed" THEN [st EXCEPT !.np = seedNp(st.np, s)]
    ELSE [st EXCEPT !.err = NameError]

\* for _ in range(n): print(random())
RandomLoopStmt(st, n) ==
    IF st.err # NoError THEN st
    ELSE IF st.names["random"] # "random.random" THEN [st EXCEPT !.err = NameError]
    ELSE [st EXCEPT !.py = Draws(st.py, n).gen, !.out = @ \o Draws(st.py, n).values]

\* print(rand(n)): the n values are printed as one array
RandStmt(st, n) ==
    IF st.err # NoError THEN st
    ELSE IF st.names["rand"] # "numpy.random.rand" THEN [st EXCEPT !.err = NameError]
    ELSE [st EXCEPT !.np = Draws(st.np, n).gen, !.out = Append(@, Draws(st.np, n).values)]

\* print('Reseeded')
ReseededStmt(st) ==
    IF st.err # NoError THEN st ELSE [st EXCEPT !.out = Append(@, "Reseeded")]

RngStep(st, stmt) ==
    CASE stmt[1] = "from random import seed" -> ImportStmt(st, "seed", "random.seed")
      [] stmt[1] = "from random import random" -> ImportStmt(st, "random", "random.random")
      [] stmt[1] = "from numpy.random import seed" -> ImportStmt(st, "seed", "numpy.random.seed")
      [] stmt[1] = "from numpy.random import rand" -> ImportStmt(st, "rand", "numpy.random.rand")
      [] stmt[1] = "seed" -> SeedStmt(st, stmt[2])
      [] stmt[1] = "for _ in range: print(random())" -> RandomLoopStmt(st, stmt[2])
      [] stmt[1] = "print(rand)" -> RandStmt(st, stmt[2])
      [] stmt[1] = "print('Reseeded')" -> ReseededStmt(st)

RECURSIVE RngExec(_, _)
RngExec(st0, prog) ==
    IF prog = <<>> THEN st0
    ELSE CHOOSE r \in { RngExec(RngStep(st, Head(prog)), Tail(prog)) : st \in {st0} } : TRUE

\* the cell "demonstrates the python pseudorandom number generator"
PythonCell(st0, s, n) ==
    RngExec(st0,
        << <<"from random import seed">>,
           <<"from random import random">>,
           <<"seed", s>>,
           <<"for _ in range: print(random())", n>>,
           <<"print('Reseeded')">>,
           <<"seed", s>>,
           <<"for _ in range: print(random())", n>> >>)

\* the cell "demonstrates the numpy pseudorandom number generator"
NumpyCell(st0, s, n) ==
    RngExec(st0,
        << <<"from numpy.random import seed">>,
           <<"from numpy.random import rand">>,
           <<"seed", s>>,
           <<"print(rand)", n>>,
           <<"print('Reseeded')">>,
           <<"seed", s>>,
           <<"print(rand)", n>> >>)

RngFinish(res, cell, s, n) ==
    \E r \in {res} :
    /\ names' = r.names
    /\ pyGen' = r.py
    /\ npGen' = r.np
    /\ rngErr' = r.err
    /\ rngOut' = r.out
    /\ rngRun' = [cell |-> cell, seed |-> s, draws |-> n]
    /\ rngCount' = rngCount + 1
    /\ UNCHANGED <<eigVars, kerasVars>>

RunPythonCell ==
    /\ rngCount < MaxRuns
    /\ \E s \in Seeds : \E n \in 1..MaxDraws : RngFinish(PythonCell(RngStart, s, n), "python", s, n)

RunNumpyCell ==
    /\ rngCount < MaxRuns
    /\ \E s \in Seeds : \E n \in 1..MaxDraws : RngFinish(NumpyCell(RngStart, s, n), "numpy", s, n)

\* a fresh kernel of the pseudorandom number notebook: until seeded, each
\* generator is in a state taken from the system (time or entropy)
InitRandom ==
    /\ EigInit /\ obscured = {}
    /\ KerasInit
    /\ RngInit
    /\ pyGen \in GenStates
    /\ npGen \in GenStates

NextRandom == RunPythonCell \/ RunNumpyCell

SpecRandom == InitRandom /\ [][NextRandom]_vars

----------------------------------------------------------------------------
(* Properties of the pseudorandom number notebook.                         *)

RECURSIVE AdvanceTimes(_, _)
AdvanceTimes(g, k) == IF k = 0 THEN g ELSE AdvanceTimes(Advance(g), k - 1)

\* the first n values of a generator that was just put in state g
SequenceFrom(g, n) == [k \in 1..n |-> AdvanceTimes(g, k)]

\* C9: a cell seeds with s and draws n values twice; both batches are the n
\* values that follow seed(s) in a generator that did nothing before,
\* whatever was drawn or seeded earlier in the kernel; for the Python
\* generator and for the NumPy generator.
C9_SameSeedSameSequence ==
    /\ rngRun.cell = "python" =>
          /\ rngErr = NoError
          /\ rngOut = SequenceFrom(seedPy(0, rngRun.seed), rngRun.draws)
                        \o <<"Reseeded">>
                        \o SequenceFrom(seedPy(0, rngRun.seed), rngRun.draws)
    /\ rngRun.cell = "numpy" =>
          /\ rngErr = NoError
          /\ rngOut = << SequenceFrom(seedNp(0, rngRun.seed), rngRun.draws),
                         "Reseeded",
                         SequenceFrom(seedNp(0, rngRun.seed), rngRun.draws) >>

\* the third cell run of a kernel prints the same batch twice
C9_Witness ==
    /\ rngCount = 3
    /\ rngRun.cell = "python" /\ rngRun.draws = 2
    /\ Len(rngOut) = 5
    /\ <<rngOut[1], rngOut[2]>> = <<rngOut[4], rngOut[5]>>
    /\ names["rand"] = "numpy.random.rand"

\* C10: a run of the Python cell (random.seed, random.random) leaves the state
\* of the NumPy generator unchanged, and what a run of the NumPy cell prints
\* and the state it leaves the NumPy generator in depend on its own seed and
\* number of draws only, not on the Python generator.
C10_PythonSeedLeavesNumpy ==
    [][/\ rngRun'.cell = "python" => npGen' = npGen
       /\ rngRun'.cell = "numpy" =>
             /\ pyGen' = pyGen
             /\ npGen' = AdvanceTimes(seedNp(0, rngRun'.seed), rngRun'.draws)
             /\ rngOut' = << SequenceFrom(seedNp(0, rngRun'.seed), rngRun'.draws),
                             "Reseeded",
                             SequenceFrom(seedNp(0, rngRun'.seed), rngRun'.draws) >>]_vars

\* the NumPy cell has run, then the Python cell with another seed: the NumPy
\* generator is still where the NumPy cell left it
C10_Witness ==
    /\ rngRun.cell = "python"
    /\ names["seed"] = "random.seed"
    /\ names["rand"] = "numpy.random.rand"
    /\ \E s \in Seeds \ {rngRun.seed} : \E n \in 1..MaxDraws :
          npGen = AdvanceTimes(seedNp(0, s), n)
    /\ pyGen = AdvanceTimes(seedPy(0, rngRun.seed), rngRun.draws)

\* a kernel that has run no cell, its generators in the states g and h
FreshKernel(g, h) ==
    [names |-> [n \in {"seed", "random", "rand"} |-> "unbound"],
     py |-> g, np |-> h, out |-> <<>>, err |-> NoError]

\* C19: whatever cells ran before and whatever they left the name seed bound
\* to, a run of either cell ends without an error and prints what the same
\* cell prints in a kernel that has run nothing, in any state of the two
\* generators; the Python cell ends with seed bound to random.seed and has
\* seeded and advanced the Python generator only, the NumPy cell ends with
\* seed bound to numpy.random.seed and has seeded and advanced the NumPy
\* generator only.
C19_SameOutputInAnyOrder ==
    [][/\ rngErr' = NoError
       /\ rngRun'.cell = "python" =>
             /\ names' = [names EXCEPT !["seed"] = "random.seed", !["random"] = "random.random"]
             /\ pyGen' = Draws(seedPy(pyGen, rngRun'.seed), rngRun'.draws).gen
             /\ npGen' = npGen
             /\ \A g, h \in GenStates :
                   rngOut' = PythonCell(FreshKernel(g, h), rngRun'.seed, rngRun'.draws).out
       /\ rngRun'.cell = "numpy" =>
             /\ names' = [names EXCEPT !["seed"] = "numpy.random.seed", !["rand"] = "numpy.random.rand"]
             /\ npGen' = Draws(seedNp(npGen, rngRun'.seed), rngRun'.draws).gen
             /\ pyGen' = pyGen
             /\ \A g, h \in GenStates :
                   rngOut' = NumpyCell(FreshKernel(g, h), rngRun'.seed, rngRun'.draws).out]_vars

\* the NumPy cell has been run in a kernel where the Python cell had bound
\* seed to random.seed, as the third run or a later one
C19_Witness ==
    /\ rngRun.cell = "numpy"
    /\ rngCount >= 3
    /\ names["random"] = "random.random"
    /\ names["seed"] = "numpy.random.seed"
    /\ rngErr = NoError
    /\ rngOut = NumpyCell(FreshKernel(0, 0), rngRun.seed, rngRun.draws).out

----------------------------------------------------------------------------
(* The stacked LSTM notebook.  Its cells build a Keras Sequential model;   *)
(* two of them also predict from one input array and print the result.     *)
(* The weights are random; the model here carries the shapes, which decide *)
(* whether a layer can be added and what predict returns.  A shape is the  *)
(* sequence of the axis lengths; the shapes a model keeps for its input    *)
(* and output are without the leading samples axis, which only the data    *)
(* fixes.  The two stacked cells of the source are written with "..." for  *)
(* the arguments: the number of LSTM layers, their return_sequences        *)
(* arguments and the number of units are the inputs of one cell here.      *)

MaxUnits == 2
MaxSteps == 3
MaxSamples == 2
MaxLayers == 4
Features == 1

IncompatibleNdim == "ValueError: Input 0 is incompatible with layer lstm: expected ndim=3"
InputMismatch == "ValueError: Error when checking input"

\* the ways the source writes the argument: left out, or return_sequences=True
ReturnSequencesArgs == {"unset", "True"}

\* mutant of LSTM: return_sequences defaults to True
LSTMSequencesByDefault(units, rs) ==
    [type |-> "LSTM", units |-> units, return_sequences |-> (rs \in {"True", "unset"})]

\* LSTM(units) and LSTM(units, return_sequences=True)
LSTM(units, rs) ==
    [type |-> "LSTM", units |-> units, return_sequences |-> (rs = "True")]

\* Dense(units)
Dense(units) == [type |-> "Dense", units |-> units, return_sequences |-> FALSE]

\* whether a layer takes an input of this shape (samples axis left out): an
\* LSTM layer takes (time steps, features), a Dense layer anything with a
\* last axis
AcceptsInput(layer, shape) ==
    IF layer.type = "LSTM" THEN Len(shape) = 2 ELSE Len(shape) >= 1

\* mutant of OutputShape: an LSTM layer returns its last output only
OutputShapeLastOnly(layer, shape) ==
    IF layer.type = "LSTM" THEN <<layer.units>>
    ELSE [shape EXCEPT ![Len(shape)] = layer.units]

\* the shape a layer returns for an input of this shape
OutputShape(layer, shape) ==
    IF layer.type = "LSTM"
    THEN IF layer.return_sequences THEN <<shape[1], layer.units>> ELSE <<layer.units>>
    ELSE [shape EXCEPT ![Len(shape)] = layer.units]

KerasStart == [model |-> model, data |-> data, out |-> <<>>, err |-> NoError]

\* model = Sequential()
SequentialStmt(st) ==
    IF st.err # NoError THEN st
    ELSE [st EXCEPT !.model = [bound |-> TRUE, layers |-> <<>>, input_shape |-> <<>>,
                               output_shape |-> <<>>, compiled |-> FALSE]]

\* model.add(layer); shape is the input_shape argument of the layer, <<>> if
\* it has none.  The layer is called on the output of the model so far, and
\* is not added if it does not take it.
AddStmt(st, layer, shape) ==
    IF st.err # NoError THEN st
    ELSE IF ~st.model.bound THEN [st EXCEPT !.err = NameError]
    ELSE IF st.model.layers = <<>>
    THEN IF ~AcceptsInput(layer, shape) THEN [st EXCEPT !.err = IncompatibleNdim]
         ELSE [st EXCEPT !.model.layers = <<layer>>,
                         !.model.input_shape = shape,
                         !.model.output_shape = OutputShape(layer, shape)]
    ELSE IF ~AcceptsInput(layer, st.model.output_shape)
         THEN [st EXCEPT !.err = IncompatibleNdim]
    ELSE [st EXCEPT !.model.layers = Append(@, layer),
                    !.model.output_shape = OutputShape(layer, st.model.output_shape)]

\* model.compile(optimizer='adam', loss='mse')
CompileStmt(st) ==
    IF st.err # NoError THEN st
    ELSE IF ~st.model.bound THEN [st EXCEPT !.err = NameError]
    ELSE [st EXCEPT !.model.compiled = TRUE]

\* data = array([...]).reshape(shape), for a list with as many values as the
\* shape holds
DataStmt(st, shape) ==
    IF st.err # NoError THEN st ELSE [st EXCEPT !.data = shape]

\* print(model.predict(data)): the data must have the input shape of the
\* model after its samples axis; the result has the samples axis of the data
\* and then the output shape of the model
PredictStmt(st) ==
    IF st.err # NoError THEN st
    ELSE IF ~st.model.bound \/ st.data = <<>> THEN [st EXCEPT !.err = NameError]
    ELSE IF Tail(st.data) # st.model.input_shape THEN [st EXCEPT !.err = InputMismatch]
    ELSE [st EXCEPT !.out = Append(@, <<Head(st.data)>> \o st.model.output_shape)]

KerasStep(st, stmt) ==
    CASE stmt[1] = "model = Sequential()" -> SequentialStmt(st)
      [] stmt[1] = "model.add" -> AddStmt(st, stmt[2], stmt[3])
      [] stmt[1] = "model.compile" -> CompileStmt(st)
      [] stmt[1] = "data = array.reshape" -> DataStmt(st, stmt[2])
      [] stmt[1] = "print(model.predict(data))" -> PredictStmt(st)

RECURSIVE KerasExec(_, _)
KerasExec(st0, prog) ==
    IF prog = <<>> THEN st0
    ELSE CHOOSE r \in { KerasExec(KerasStep(st, Head(prog)), Tail(prog)) : st \in {st0} } : TRUE

\* the cells "one output for whole sequence" (rs unset) and "one output for
\* each input time step" (rs "True"); the source has units = 1,
\* input_shape = (3, 1) and data of shape (1, 3, 1)
SequenceCell(st0, rs, units, inputShape, shape) ==
    KerasExec(st0,
        << <<"model = Sequential()">>,
           <<"model.add", LSTM(units, rs), inputShape>>,
           <<"model.compile">>,
           <<"data = array.reshape", shape>>,
           <<"print(model.predict(data))">> >>)

\* the cells that define a stacked LSTM: the first LSTM layer with an
\* input_shape, the further LSTM layers, a Dense layer; rs[k] is the
\* return_sequences argument of the k-th LSTM layer.  The source has
\* rs = <<"True", "unset">> and rs = <<"True", "True", "True", "unset">>.
StackedCell(st0, rs, units, inputShape) ==
    KerasExec(st0,
        << <<"model = Sequential()">>,
           <<"model.add", LSTM(units, rs[1]), inputShape>> >>
        \o [k \in 1..(Len(rs) - 1) |-> <<"model.add", LSTM(units, rs[k + 1]), <<>>>>]
        \o << <<"model.add", Dense(units), <<>>>> >>)

KerasFinish(res, run) ==
    \E r \in {res} :
    /\ model' = r.model
    /\ data' = r.data
    /\ kerasErr' = r.err
    /\ kerasOut' = r.out
    /\ kerasRun' = run
    /\ UNCHANGED <<eigVars, rngVars>>

InputShapes == { <<t, Features>> : t \in 1..MaxSteps }

\* data of shape (samples, time steps, features), and of shape (samples,
\* time steps) for an array that was not given its features axis
DataShapes ==
    { <<n, t, Features>> : n \in 1..MaxSamples, t \in 1..MaxSteps }
        \cup { <<n, t>> : n \in 1..MaxSamples, t \in 1..MaxSteps }

RunSequenceCell ==
    \E rs \in ReturnSequencesArgs : \E units \in 1..MaxUnits :
    \E inputShape \in InputShapes : \E shape \in DataShapes :
        KerasFinish(SequenceCell(KerasStart, rs, units, inputShape, shape),
                    [cell |-> "sequence", return_sequences |-> <<rs>>, units |-> units,
                     input_shape |-> inputShape, shape |-> shape])

RunStackedCell ==
    \E n \in 1..MaxLayers : \E rs \in [1..n -> ReturnSequencesArgs] :
    \E units \in 1..MaxUnits :
        KerasFinish(StackedCell(KerasStart, rs, units, <<MaxSteps, Features>>),
                    [cell |-> "stacked", return_sequences |-> rs, units |-> units,
                     input_shape |-> <<MaxSteps, Features>>, shape |-> <<>>])

\* a fresh kernel of the stacked LSTM notebook
InitKeras ==
    /\ EigInit /\ obscured = {}
    /\ RngInit /\ pyGen = 0 /\ npGen = 0
    /\ KerasInit

NextKeras == RunSequenceCell \/ RunStackedCell

SpecKeras == InitKeras /\ [][NextKeras]_vars

----------------------------------------------------------------------------
(* Properties of the stacked LSTM notebook.                                *)

IsTrue(arg) == arg = "True"

\* the LSTM layers of the last stacked cell that come before its first LSTM
\* layer without return_sequences=True, and that layer
AddedBeforeRefusal(rs) ==
    IF \A k \in 1..Len(rs) : IsTrue(rs[k]) THEN Len(rs)
    ELSE CHOOSE k \in 1..Len(rs) : ~IsTrue(rs[k]) /\ \A i \in 1..(k - 1) : IsTrue(rs[i])

\* C14: in every model a cell has built, an LSTM layer followed by an LSTM
\* layer has return_sequences = True.  A stacked cell with n LSTM layers ends
\* without an error exactly if each of the first n - 1 is given
\* return_sequences=True, whatever n is and whatever the last one is given;
\* a layer not given the argument has return_sequences = False; the LSTM
\* layer added after such a layer is refused (ValueError, expected ndim=3)
\* and the cell ends there, with the layers added before.
C14_StackWellFormed ==
    /\ \A k \in 1..(Len(model.layers) - 1) :
          (model.layers[k].type = "LSTM" /\ model.layers[k + 1].type = "LSTM")
              => model.layers[k].return_sequences
    /\ kerasRun.cell = "stacked" =>
          /\ kerasErr = NoError
                <=> \A k \in 1..(Len(kerasRun.return_sequences) - 1) :
                        IsTrue(kerasRun.return_sequences[k])
          /\ kerasErr = NoError =>
                /\ Len(model.layers) = Len(kerasRun.return_sequences) + 1
                /\ model.layers[Len(model.layers)].type = "Dense"
          /\ kerasErr # NoError =>
                /\ kerasErr = IncompatibleNdim
                /\ Len(model.layers) = AddedBeforeRefusal(kerasRun.return_sequences)
          /\ \A k \in 1..Len(model.layers) :
                k <= Len(kerasRun.return_sequences) =>
                    /\ model.layers[k].type = "LSTM"
                    /\ model.layers[k].return_sequences = IsTrue(kerasRun.return_sequences[k])

\* the stack of the source with four hidden LSTM layers has been built
C14_Witness ==
    /\ kerasRun.cell = "stacked"
    /\ kerasRun.return_sequences = <<"True", "True", "True", "unset">>
    /\ kerasErr = NoError
    /\ Len(model.layers) = 5
    /\ ~model.layers[4].return_sequences
    /\ model.output_shape = <<kerasRun.units>>

\* C15: a sequence cell whose data has the shape (samples, time steps,
\* features) the model expects prints one array, of shape (samples, units)
\* when the LSTM layer is not given return_sequences and of shape (samples,
\* time steps, units) when it is given return_sequences=True: (1, 1) and
\* (1, 3, 1) for data of shape (1, 3, 1) and one unit.  Data that is not 3-D,
\* or has another number of time steps, is refused and nothing is printed.
C15_LstmOutputShape ==
    kerasRun.cell = "sequence" =>
        /\ (Len(kerasRun.shape) = 3 /\ Tail(kerasRun.shape) = kerasRun.input_shape) =>
              /\ kerasErr = NoError
              /\ kerasRun.return_sequences = <<"unset">> =>
                    kerasOut = << <<kerasRun.shape[1], kerasRun.units>> >>
              /\ kerasRun.return_sequences = <<"True">> =>
                    kerasOut = << <<kerasRun.shape[1], kerasRun.shape[2], kerasRun.units>> >>
              /\ (kerasRun.shape = <<1, 3, 1>> /\ kerasRun.units = 1) =>
                    kerasOut = IF kerasRun.return_sequences = <<"True">>
                               THEN << <<1, 3, 1>> >> ELSE << <<1, 1>> >>
        /\ (Len(kerasRun.shape) # 3 \/ Tail(kerasRun.shape) # kerasRun.input_shape) =>
              /\ kerasErr = InputMismatch
              /\ kerasOut = <<>>

\* the second cell of the source: one unit, return_sequences=True, data of
\* shape (1, 3, 1), one output per time step
C15_Witness ==
    /\ kerasRun.cell = "sequence"
    /\ kerasRun.return_sequences = <<"True">>
    /\ kerasRun.units = 1
    /\ data = <<1, 3, 1>>
    /\ kerasErr = NoError
    /\ kerasOut = << <<1, 3, 1>> >>

====
